---- MODULE Spec2Model ----
(***************************************************************************)
(* CHStore (store_clickhouse.go): the ClickHouse backend of the passive    *)
(* DNS store.  The database is modelled by the rows of its tables; every   *)
(* method of CHStore is one action that runs the statements of the method  *)
(* in the order of the code, with the outcome of each database or HTTP     *)
(* call drawn from the outcomes that call can have.                        *)
(***************************************************************************)
EXTENDS Integers, Sequences, FiniteSets, TLC

VARIABLES
    tuples,           \* the parts of the AggregatingMergeTree table tuples, oldest first
    individual,       \* the parts of the AggregatingMergeTree table individual
    filenames,        \* the filename values in the rows of the MergeTree table filenames
    tuples_temp,      \* staging table tuples_temp: [exists, rows]
    individual_temp,  \* staging table individual_temp: [exists, rows]
    call,             \* the last call of a CHStore method and what it returned
    nUpdate,          \* number of Update calls made so far
    nFault,           \* number of database and HTTP calls that failed so far
    mergedT,          \* batch name -> number of times INSERT INTO tuples ran for it
    mergedI           \* batch name -> number of times INSERT INTO individual ran for it

vars == <<tuples, individual, filenames, tuples_temp, individual_temp, call,
          nUpdate, nFault, mergedT, mergedI>>

dbvars == <<tuples, individual, filenames, tuples_temp, individual_temp>>

-----------------------------------------------------------------------------
(* Bounds *)

\* Update calls in one behaviour
MaxUpdate == 2
\* database and HTTP calls that fail in one behaviour
MaxFault == 1
\* frames of Close the stack of the goroutine has room for
MaxStack == 3

-----------------------------------------------------------------------------
(* Strings are sequences of one-character strings, ordered by byte value. *)

CharOrd(c) ==
    CASE c = "%" -> 37
      [] c = "." -> 46
      [] c = "A" -> 65
      [] c = "_" -> 95
      [] c = "a" -> 97
      [] c = "b" -> 98

\* s < t in the byte order ClickHouse sorts String columns by
StrLess(s, t) ==
    \E i \in 1..(Len(t)) :
        /\ \A j \in 1..(i - 1) : j <= Len(s) /\ s[j] = t[j]
        /\ \/ i = Len(s) + 1
           \/ i <= Len(s) /\ CharOrd(s[i]) < CharOrd(t[i])

\* Reverse (util of the repository, not in store_clickhouse.go): the string
\* with its characters in reverse order
Reverse(s) == [i \in 1..Len(s) |-> s[Len(s) + 1 - i]]

\* SQL LIKE: % matches any run of characters, _ matches one character
RECURSIVE Like(_, _)
Like(s, p) ==
    IF p = <<>> THEN s = <<>>
    ELSE IF Head(p) = "%"
         THEN Like(s, Tail(p)) \/ (s # <<>> /\ Like(Tail(s), p))
         ELSE /\ s # <<>>
              /\ (Head(p) = "_" \/ Head(p) = Head(s))
              /\ Like(Tail(s), Tail(p))

-----------------------------------------------------------------------------
(* The batches (aggregationResult values) Update is called with.  Rows are  *)
(* in the caller's natural form; first <= last in every row.               *)

sA   == <<"a">>
sAB  == <<"a", "b">>
sBA  == <<"b", "a">>
sBdA == <<"b", ".", "a">>
sPA  == <<"%", "a">>
sAP  == <<"a", "%">>
\* the record type A
tyA  == <<"A">>

TupleRow(q, t, a, ttl, f, l, c) ==
    [query |-> q, type |-> t, answer |-> a, ttl |-> ttl, first |-> f, last |-> l, count |-> c]

IndividualRow(w, v, f, l, c) ==
    [which |-> w, value |-> v, first |-> f, last |-> l, count |-> c]

Batches ==
    { [name |-> "f1",
       Tuples |-> << TupleRow(sBdA, tyA, sAB, 1, 2, 2, 1),
                     TupleRow(sA, tyA, sBdA, 3, 3, 3, 1) >>,
       Individual |-> << IndividualRow("Q", sBdA, 2, 2, 1),
                         IndividualRow("Q", sA, 3, 3, 1),
                         IndividualRow("A", sAB, 2, 2, 1),
                         IndividualRow("A", sBdA, 3, 3, 1) >>],
      [name |-> "f2",
       Tuples |-> << TupleRow(sBdA, tyA, sAB, 2, 1, 3, 2),
                     TupleRow(sBA, tyA, sAP, 1, 1, 1, 1) >>,
       Individual |-> << IndividualRow("Q", sBdA, 1, 3, 2),
                         IndividualRow("Q", sBA, 1, 1, 1),
                         IndividualRow("A", sAB, 1, 3, 2),
                         IndividualRow("A", sAP, 1, 1, 1) >>] }

BatchNames == {b.name : b \in Batches}

BatchOf(f) == CHOOSE b \in Batches : b.name = f

\* the strings the lookups are called with
LookupArgs == {sA, sAB, sBA, sPA}

\* ar.TupleJSONReader(true): one row per tuple, the query reversed
TupleJSONReader(ar) ==
    [i \in 1..Len(ar.Tuples) |->
        [ar.Tuples[i] EXCEPT !.query = Reverse(ar.Tuples[i].query)]]

\* ar.IndividualJSONReader(true): one row per individual, the value of a
\* 'Q' row reversed, the value of an 'A' row as it is
IndividualJSONReader(ar) ==
    [i \in 1..Len(ar.Individual) |->
        IF ar.Individual[i].which = "Q"
        THEN [ar.Individual[i] EXCEPT !.value = Reverse(ar.Individual[i].value)]
        ELSE ar.Individual[i]]

-----------------------------------------------------------------------------
(* Aggregate function states: anyLast(ttl), min(first), max(last),         *)
(* sum(count), combined per key (query, type, answer) or (which, value).   *)

Min(a, b) == IF a <= b THEN a ELSE b
Max(a, b) == IF a >= b THEN a ELSE b

KeyT(r) == <<r.query, r.type, r.answer>>
KeyI(r) == <<r.which, r.value>>

\* mutant: the first of the earlier state is kept
CombineT_FirstOfEarlier(a, b) ==
    [query |-> a.query, type |-> a.type, answer |-> a.answer,
     ttl |-> b.ttl,
     first |-> a.first,
     last |-> IF a.last >= b.last THEN a.last ELSE b.last,
     count |-> a.count + b.count]

\* mutant: the count of the later state replaces the sum
CombineT_CountOfLater(a, b) ==
    [query |-> a.query, type |-> a.type, answer |-> a.answer,
     ttl |-> b.ttl,
     first |-> IF a.first <= b.first THEN a.first ELSE b.first,
     last |-> IF a.last >= b.last THEN a.last ELSE b.last,
     count |-> b.count]

\* mutant: the ttl of the earlier state is kept (any instead of anyLast)
CombineT_TtlOfEarlier(a, b) ==
    [query |-> a.query, type |-> a.type, answer |-> a.answer,
     ttl |-> a.ttl,
     first |-> IF a.first <= b.first THEN a.first ELSE b.first,
     last |-> IF a.last >= b.last THEN a.last ELSE b.last,
     count |-> a.count + b.count]

\* two states of one tuple key combined, a before b
CombineT(a, b) ==
    [query |-> a.query, type |-> a.type, answer |-> a.answer,
     ttl |-> b.ttl,
     first |-> Min(a.first, b.first),
     last |-> Max(a.last, b.last),
     count |-> a.count + b.count]

\* two states of one individual key combined
CombineI(a, b) ==
    [which |-> a.which, value |-> a.value,
     first |-> Min(a.first, b.first),
     last |-> Max(a.last, b.last),
     count |-> a.count + b.count]

RECURSIVE FoldT(_, _)
FoldT(acc, rows) ==
    IF rows = <<>> THEN acc ELSE FoldT(CombineT(acc, Head(rows)), Tail(rows))

RECURSIVE FoldI(_, _)
FoldI(acc, rows) ==
    IF rows = <<>> THEN acc ELSE FoldI(CombineI(acc, Head(rows)), Tail(rows))

\* ... group by query, type, answer
RECURSIVE GroupT(_)
GroupT(rows) ==
    IF rows = <<>> THEN <<>>
    ELSE LET h == Head(rows)
             same == SelectSeq(Tail(rows), LAMBDA r : KeyT(r) = KeyT(h))
             rest == SelectSeq(Tail(rows), LAMBDA r : KeyT(r) # KeyT(h))
         IN  <<FoldT(h, same)>> \o GroupT(rest)

\* ... group by which, value
RECURSIVE GroupI(_)
GroupI(rows) ==
    IF rows = <<>> THEN <<>>
    ELSE LET h == Head(rows)
             same == SelectSeq(Tail(rows), LAMBDA r : KeyI(r) = KeyI(h))
             rest == SelectSeq(Tail(rows), LAMBDA r : KeyI(r) # KeyI(h))
         IN  <<FoldI(h, same)>> \o GroupI(rest)

\* the primary key order of tuples: (query, type, answer)
KeyLessT(r1, r2) ==
    \/ StrLess(r1.query, r2.query)
    \/ /\ r1.query = r2.query
       /\ \/ StrLess(r1.type, r2.type)
          \/ r1.type = r2.type /\ StrLess(r1.answer, r2.answer)

\* Enum8('Q'=0, 'A'=1)
WhichOrd(w) == IF w = "Q" THEN 0 ELSE 1

\* the primary key order of individual: (which, value)
KeyLessI(r1, r2) ==
    \/ WhichOrd(r1.which) < WhichOrd(r2.which)
    \/ r1.which = r2.which /\ StrLess(r1.value, r2.value)

\* the rows of a part, in primary key order
SortT(rows) == SortSeq(rows, KeyLessT)
SortI(rows) == SortSeq(rows, KeyLessI)

\* the rows of a table: those of its parts, oldest part first
RECURSIVE Rows(_)
Rows(parts) == IF parts = <<>> THEN <<>> ELSE Head(parts) \o Rows(Tail(parts))

\* ORDER BY query, answer
OrderByQueryAnswer(rows) ==
    SortSeq(rows, LAMBDA r1, r2 :
        \/ StrLess(r1.query, r2.query)
        \/ r1.query = r2.query /\ StrLess(r1.answer, r2.answer))

\* ORDER BY value
OrderByValue(rows) ==
    SortSeq(rows, LAMBDA r1, r2 : StrLess(r1.value, r2.value))

-----------------------------------------------------------------------------
(* What a call returns *)

Nil == "nil"
\* the process ends with a nil pointer dereference instead of returning
Panic == "panic: nil pointer dereference"

ErrCreateTuples == "CHStore.Update failed to create temporary tuples table"
ErrCreateIndividual == "CHStore.Update failed to create temporary individual table"
ErrLoadTuples == "CHStore.Update tuples failed"
ErrInsertTuples == "CHStore.Update failed to insert into tuples"
\* mutant: the message of the tuples load is used for the individual load too
ErrLoadIndividual_SameAsTuples == "CHStore.Update tuples failed"
ErrLoadIndividual == "CHStore.Update individual failed"
ErrInsertIndividual == "CHStore.Update failed to insert into individual"
ErrDatabase == "database error"

Called(op, arg, err, res, log) ==
    [op |-> op, arg |-> arg, err |-> err, res |-> res, log |-> log]

\* one more call fails, if the behaviour has a failure left
Fails(failed) ==
    /\ failed => nFault < MaxFault
    /\ nFault' = IF failed THEN nFault + 1 ELSE nFault

InLog(log, stmt) == \E n \in 1..Len(log) : log[n] = stmt

NoTable == [exists |-> FALSE, rows |-> <<>>]

Init ==
    /\ tuples = <<>>
    /\ individual = <<>>
    /\ filenames = {}
    /\ tuples_temp = NoTable
    /\ individual_temp = NoTable
    /\ call = Called("Init", <<>>, Nil, <<>>, <<>>)
    /\ nUpdate = 0
    /\ nFault = 0
    /\ mergedT = [f \in BatchNames |-> 0]
    /\ mergedI = [f \in BatchNames |-> 0]

-----------------------------------------------------------------------------
(* Update *)

\* the one call of an Update that fails, if any:
\*   drop*     the DROP TABLE fails and the table stays (the error is dropped)
\*   create*   the CREATE TABLE fails
\*   load*Status     SendJSON gets a response with StatusCode >= 400
\*   load*Transport  client.Post returns no response (timeout, unreachable)
\*   load*Read       the rows are loaded, reading the response body fails
\*   insert*   the INSERT ... SELECT fails
UpdateFaults ==
    {"none", "dropT", "dropI", "createT", "createI",
     "loadTStatus", "loadTTransport", "loadTRead", "insertT",
     "loadIStatus", "loadITransport", "loadIRead", "insertI"}

\* s.Exec("DROP TABLE t"): fails when the table is absent
DropTable(t, failed) == IF failed \/ ~t.exists THEN t ELSE NoTable

\* mutant: CREATE TABLE IF NOT EXISTS, which succeeds when the table is there
CanCreate_IfNotExists(t, failed) == ~failed

\* s.Exec(tuples_temp_stmt): CREATE TABLE without IF NOT EXISTS fails when
\* the table is there
CanCreate(t, failed) == ~failed /\ ~t.exists

\* the table after a CREATE TABLE that succeeded
CreateTable(t) == [exists |-> TRUE, rows |-> t.rows]

\* SendJSON(table, r): the error it returns, and whether the rows arrived
SendJSONErr(outcome) ==
    CASE outcome = "transport" -> Panic
      [] outcome = "status" -> "Clickhouse error"
      [] outcome = "read" -> "read error"
      [] OTHER -> Nil

SendJSONLoads(outcome) == outcome \in {"ok", "read"}

\* mutant: the states of first and last are selected in the other order
InsertTuples_FirstLastSwapped(table, temp) ==
    IF temp.rows = <<>> THEN table
    ELSE Append(table, [n \in 1..Len(SortT(GroupT(temp.rows))) |->
                           [SortT(GroupT(temp.rows))[n] EXCEPT
                               !.first = SortT(GroupT(temp.rows))[n].last,
                               !.last = SortT(GroupT(temp.rows))[n].first]])

\* mutant: the INSERT selects no row
InsertTuples_NoRows(table, temp) == table

\* INSERT INTO tuples (...) SELECT ..., anyLastState(ttl), minState(first),
\* maxState(last), sumState(count) from tuples_temp group by query, type, answer
InsertTuples(table, temp) ==
    IF temp.rows = <<>> THEN table ELSE Append(table, SortT(GroupT(temp.rows)))

\* INSERT INTO individual (...) SELECT ... from individual_temp group by which, value
InsertIndividual(table, temp) ==
    IF temp.rows = <<>> THEN table ELSE Append(table, SortI(GroupI(temp.rows)))

UpdateEnd(t, i, tt, it, err, log) ==
    [tuples |-> t, individual |-> i, tuples_temp |-> tt, individual_temp |-> it,
     err |-> err, log |-> log]

\* errors.Wrap(err, msg); a panic is no error value and is not wrapped
Wrap(err, msg) == IF err = Panic THEN Panic ELSE msg

\* the whole of Update(ar) from the database state (t, i, tt, it)
UpdateRun(t, i, tt, it, ar, fault) ==
    LET tt1 == DropTable(tt, fault = "dropT")
        it1 == DropTable(it, fault = "dropI")
        log1 == (IF tt.exists /\ fault # "dropT" THEN <<"DROP tuples_temp">> ELSE <<>>)
                \o (IF it.exists /\ fault # "dropI" THEN <<"DROP individual_temp">> ELSE <<>>)
        tt2 == CreateTable(tt1)
        it2 == CreateTable(it1)
        log2 == Append(log1, "CREATE tuples_temp")
        log3 == Append(log2, "CREATE individual_temp")
        outT == CASE fault = "loadTStatus" -> "status"
                  [] fault = "loadTTransport" -> "transport"
                  [] fault = "loadTRead" -> "read"
                  [] OTHER -> "ok"
        outI == CASE fault = "loadIStatus" -> "status"
                  [] fault = "loadITransport" -> "transport"
                  [] fault = "loadIRead" -> "read"
                  [] OTHER -> "ok"
        tt3 == IF SendJSONLoads(outT)
               THEN [tt2 EXCEPT !.rows = @ \o TupleJSONReader(ar)] ELSE tt2
        log4 == IF SendJSONLoads(outT) THEN Append(log3, "LOAD tuples_temp") ELSE log3
        t1 == InsertTuples(t, tt3)
        log5 == Append(log4, "INSERT tuples")
        it3 == IF SendJSONLoads(outI)
               THEN [it2 EXCEPT !.rows = @ \o IndividualJSONReader(ar)] ELSE it2
        log6 == IF SendJSONLoads(outI) THEN Append(log5, "LOAD individual_temp") ELSE log5
        i1 == InsertIndividual(i, it3)
        log7 == Append(log6, "INSERT individual")
    IN  IF ~CanCreate(tt1, fault = "createT")
        THEN UpdateEnd(t, i, tt1, it1, ErrCreateTuples, log1)
        ELSE IF ~CanCreate(it1, fault = "createI")
        THEN UpdateEnd(t, i, tt2, it1, ErrCreateIndividual, log2)
        ELSE IF SendJSONErr(outT) # Nil
        THEN UpdateEnd(t, i, tt3, it2, Wrap(SendJSONErr(outT), ErrLoadTuples), log4)
        ELSE IF fault = "insertT"
        THEN UpdateEnd(t, i, tt3, it2, ErrInsertTuples, log4)
        ELSE IF SendJSONErr(outI) # Nil
        THEN UpdateEnd(t1, i, tt3, it3, Wrap(SendJSONErr(outI), ErrLoadIndividual), log6)
        ELSE IF fault = "insertI"
        THEN UpdateEnd(t1, i, tt3, it3, ErrInsertIndividual, log6)
        ELSE UpdateEnd(t1, i1, tt3, it3, Nil, log7)

\* mutant: a successful Update records its batch
LedgerAfterUpdate_Records(rows, ar, err) == IF err = Nil THEN rows \cup {ar.name} ELSE rows

\* Update has no statement on filenames: the rows of the ledger after it
LedgerAfterUpdate(rows, ar, err) == rows

Update(ar, fault) ==
    /\ nUpdate < MaxUpdate
    /\ Fails(fault # "none")
    /\ LET r == UpdateRun(tuples, individual, tuples_temp, individual_temp, ar, fault)
       IN  /\ tuples' = r.tuples
           /\ individual' = r.individual
           /\ tuples_temp' = r.tuples_temp
           /\ individual_temp' = r.individual_temp
           /\ call' = Called("Update", ar.name, r.err, <<>>, r.log)
           /\ mergedT' = IF InLog(r.log, "INSERT tuples")
                         THEN [mergedT EXCEPT ![ar.name] = @ + 1] ELSE mergedT
           /\ mergedI' = IF InLog(r.log, "INSERT individual")
                         THEN [mergedI EXCEPT ![ar.name] = @ + 1] ELSE mergedI
           /\ filenames' = LedgerAfterUpdate(filenames, ar, r.err)
    /\ nUpdate' = nUpdate + 1

-----------------------------------------------------------------------------
(* AggregatingMergeTree: every INSERT writes one part; in the background   *)
(* the engine merges two neighbouring parts into one, combining the        *)
(* states of the rows of one key.                                          *)

\* parts with parts n and n + 1 replaced by the part c
MergeParts(parts, n, c) ==
    [k \in 1..(Len(parts) - 1) |->
        IF k < n THEN parts[k] ELSE IF k = n THEN c ELSE parts[k + 1]]

BackgroundMerge ==
    /\ \/ /\ \E n \in 1..(Len(tuples) - 1) :
                tuples' = MergeParts(tuples, n, SortT(GroupT(tuples[n] \o tuples[n + 1])))
          /\ UNCHANGED individual
       \/ /\ \E n \in 1..(Len(individual) - 1) :
                individual' = MergeParts(individual, n,
                                         SortI(GroupI(individual[n] \o individual[n + 1])))
          /\ UNCHANGED tuples
    /\ call' = Called("BackgroundMerge", <<>>, Nil, <<>>, <<>>)
    /\ UNCHANGED <<filenames, tuples_temp, individual_temp, nUpdate, nFault, mergedT, mergedI>>

-----------------------------------------------------------------------------
(* Clear *)

ClearFaults == {"none", "filenames", "individual", "tuples"}

\* mutant: tuples is missing from the statements
ClearRun_NoTuples(t, i, f, fault) ==
    LET delF == fault # "filenames"
        delI == delF /\ fault # "individual"
    IN  [filenames |-> IF delF THEN {} ELSE f,
         individual |-> IF delI THEN <<>> ELSE i,
         tuples |-> t,
         err |-> IF delI THEN Nil ELSE ErrDatabase,
         log |-> (IF delF THEN <<"DELETE filenames">> ELSE <<>>)
                 \o (IF delI THEN <<"DELETE individual">> ELSE <<>>)]

\* the DELETE statements run in the order filenames, individual, tuples; the
\* first that fails ends Clear with its error
ClearRun(t, i, f, fault) ==
    LET delF == fault # "filenames"
        delI == delF /\ fault # "individual"
        delT == delI /\ fault # "tuples"
    IN  [filenames |-> IF delF THEN {} ELSE f,
         individual |-> IF delI THEN <<>> ELSE i,
         tuples |-> IF delT THEN <<>> ELSE t,
         err |-> IF delT THEN Nil ELSE ErrDatabase,
         log |-> (IF delF THEN <<"DELETE filenames">> ELSE <<>>)
                 \o (IF delI THEN <<"DELETE individual">> ELSE <<>>)
                 \o (IF delT THEN <<"DELETE tuples">> ELSE <<>>)]

Clear(fault) ==
    LET r == ClearRun(tuples, individual, filenames, fault)
    IN  /\ Fails(fault # "none")
        /\ filenames' = r.filenames
        /\ individual' = r.individual
        /\ tuples' = r.tuples
        /\ mergedI' = IF InLog(r.log, "DELETE individual")
                      THEN [f \in BatchNames |-> 0] ELSE mergedI
        /\ mergedT' = IF InLog(r.log, "DELETE tuples")
                      THEN [f \in BatchNames |-> 0] ELSE mergedT
        /\ call' = Called("Clear", <<>>, r.err, <<>>, r.log)
        /\ UNCHANGED <<tuples_temp, individual_temp, nUpdate>>

-----------------------------------------------------------------------------
(* The ledger: IsLogIndexed, SetLogIndexed *)

HasRow(rows, filename) == filename \in rows

\* mutant: a row that is found is reported as absent
IsLogIndexedRun_NeverIndexed(rows, filename, queryFails) ==
    IF queryFails THEN <<FALSE, ErrDatabase>> ELSE <<FALSE, Nil>>

\* mutant: every error of the lookup is taken for absence
IsLogIndexedRun_ErrorIsAbsence(rows, filename, queryFails) ==
    IF ~queryFails /\ filename \in rows THEN <<TRUE, Nil>> ELSE <<FALSE, Nil>>

\* SELECT filename FROM filenames WHERE filename=? and the switch on the
\* error of Scan: <<indexed, err>>
IsLogIndexedRun(rows, filename, queryFails) ==
    LET err == IF queryFails THEN ErrDatabase
               ELSE IF ~HasRow(rows, filename) THEN "sql.ErrNoRows"
               ELSE Nil
    IN  CASE err = "sql.ErrNoRows" -> <<FALSE, Nil>>
          [] err # Nil -> <<FALSE, err>>
          [] OTHER -> <<TRUE, Nil>>

IsLogIndexed(filename, queryFails) ==
    /\ Fails(queryFails)
    /\ call' = Called("IsLogIndexed", filename,
                      IsLogIndexedRun(filenames, filename, queryFails)[2],
                      IsLogIndexedRun(filenames, filename, queryFails)[1],
                      IF queryFails THEN <<>> ELSE <<"SELECT filenames">>)
    /\ UNCHANGED <<dbvars, nUpdate, mergedT, mergedI>>

\* the call of SetLogIndexed that fails, if any: Begin (its error is dropped
\* and tx is nil), Exec of the INSERT, or Commit
LedgerFaults == {"none", "begin", "exec", "commit"}

\* <<rows of filenames, err>>
SetLogIndexedRun(rows, filename, fault) ==
    CASE fault = "begin" -> <<rows, Panic>>
      [] fault = "exec" -> <<rows, ErrDatabase>>
      [] fault = "commit" -> <<rows, ErrDatabase>>
      [] OTHER -> <<rows \cup {filename}, Nil>>

SetLogIndexed(filename, fault) ==
    /\ Fails(fault # "none")
    /\ filenames' = SetLogIndexedRun(filenames, filename, fault)[1]
    /\ call' = Called("SetLogIndexed", filename,
                      SetLogIndexedRun(filenames, filename, fault)[2], <<>>,
                      IF fault = "none" THEN <<"INSERT filenames">> ELSE <<>>)
    /\ UNCHANGED <<tuples, individual, tuples_temp, individual_temp, nUpdate,
                   mergedT, mergedI>>

-----------------------------------------------------------------------------
(* The lookups.  conn.Select leaves tr empty and returns the error when    *)
(* the query fails.                                                        *)

\* reverseQuery(tr) (util of the repository): the query of every row reversed
ReverseQuery(tr) == [n \in 1..Len(tr) |-> [tr[n] EXCEPT !.query = Reverse(tr[n].query)]]

\* reverseValue(tr) (util of the repository): the value of every 'Q' row reversed
ReverseValue(tr) ==
    [n \in 1..Len(tr) |->
        IF tr[n].which = "Q" THEN [tr[n] EXCEPT !.value = Reverse(tr[n].value)] ELSE tr[n]]

\* SELECT query, type, answer, minMerge(first) as first, maxMerge(last) as last,
\* sumMerge(count) as count
SelectT(rows) ==
    [n \in 1..Len(rows) |->
        [query |-> rows[n].query, type |-> rows[n].type, answer |-> rows[n].answer,
         first |-> rows[n].first, last |-> rows[n].last, count |-> rows[n].count]]

\* WHERE query = ?
WhereFindQueryTuples(r, rquery) == r.query = rquery

\* mutant: the answer is compared against the reversed input too
WhereFindTuples_BothReversed(r, rquery, query) == r.query = rquery \/ r.answer = rquery

\* WHERE query = ? OR answer = ?   with the arguments rquery, query
WhereFindTuples(r, rquery, query) == r.query = rquery \/ r.answer = query

\* WHERE query like ? OR answer like ?   with the arguments rquery+"%", query+"%"
WhereLikeTuples(r, rquery, query) ==
    Like(r.query, rquery \o <<"%">>) \/ Like(r.answer, query \o <<"%">>)

\* mutant: the two arguments are bound the other way round
WhereFindIndividual_Swapped(r, value, rvalue) ==
    (r.which = "A" /\ r.value = rvalue) \/ (r.which = "Q" /\ r.value = value)

\* WHERE (which='A' AND value = ?) OR (which='Q' AND value = ?)
\* with the arguments value, rvalue
WhereFindIndividual(r, value, rvalue) ==
    (r.which = "A" /\ r.value = value) \/ (r.which = "Q" /\ r.value = rvalue)

\* WHERE (which='A' AND value like ?) OR (which='Q' AND value like ?)
\* with the arguments value+"%", rvalue+"%"
WhereLikeIndividual(r, value, rvalue) ==
    \/ r.which = "A" /\ Like(r.value, value \o <<"%">>)
    \/ r.which = "Q" /\ Like(r.value, rvalue \o <<"%">>)

\* SELECT * FROM tuples WHERE query = ?: the rows as the parts hold them
FindQueryTuplesRun(parts, query) ==
    ReverseQuery(SelectSeq(Rows(parts), LAMBDA r : WhereFindQueryTuples(r, Reverse(query))))

FindTuplesRun(parts, query) ==
    ReverseQuery(SelectT(OrderByQueryAnswer(GroupT(
        SelectSeq(Rows(parts), LAMBDA r : WhereFindTuples(r, Reverse(query), query))))))

LikeTuplesRun(parts, query) ==
    ReverseQuery(SelectT(OrderByQueryAnswer(GroupT(
        SelectSeq(Rows(parts), LAMBDA r : WhereLikeTuples(r, Reverse(query), query))))))

FindIndividualRun(parts, value) ==
    ReverseValue(OrderByValue(GroupI(
        SelectSeq(Rows(parts), LAMBDA r : WhereFindIndividual(r, value, Reverse(value))))))

LikeIndividualRun(parts, value) ==
    ReverseValue(OrderByValue(GroupI(
        SelectSeq(Rows(parts), LAMBDA r : WhereLikeIndividual(r, value, Reverse(value))))))

Lookup(op, arg, tr, queryFails) ==
    /\ Fails(queryFails)
    /\ call' = IF queryFails THEN Called(op, arg, ErrDatabase, <<>>, <<>>)
               ELSE Called(op, arg, Nil, tr, <<"SELECT">>)
    /\ UNCHANGED <<dbvars, nUpdate, mergedT, mergedI>>

FindQueryTuples(query, queryFails) ==
    Lookup("FindQueryTuples", query, FindQueryTuplesRun(tuples, query), queryFails)

FindTuples(query, queryFails) ==
    Lookup("FindTuples", query, FindTuplesRun(tuples, query), queryFails)

LikeTuples(query, queryFails) ==
    Lookup("LikeTuples", query, LikeTuplesRun(tuples, query), queryFails)

FindIndividual(value, queryFails) ==
    Lookup("FindIndividual", value, FindIndividualRun(individual, value), queryFails)

LikeIndividual(value, queryFails) ==
    Lookup("LikeIndividual", value, LikeIndividualRun(individual, value), queryFails)

-----------------------------------------------------------------------------
(* The driver of the store (not in store_clickhouse.go): it skips a batch  *)
(* the ledger has, and records a batch after a successful Update.          *)

\* the one call of the driver's three that fails, if any
ProcessFaults == {"none", "isLogIndexed", "loadIStatus", "insertI", "begin", "exec", "commit"}

ProcessBatch(ar, fault) ==
    LET chk == IsLogIndexedRun(filenames, ar.name, fault = "isLogIndexed")
        r == UpdateRun(tuples, individual, tuples_temp, individual_temp, ar,
                       IF fault \in UpdateFaults THEN fault ELSE "none")
        set == SetLogIndexedRun(filenames, ar.name,
                                IF fault \in LedgerFaults THEN fault ELSE "none")
    IN  /\ Fails(fault # "none")
        /\ IF chk[2] # Nil \/ chk[1]
           THEN /\ call' = Called("ProcessBatch", ar.name, chk[2],
                                  IF chk[1] THEN "skipped" ELSE "failed", <<>>)
                /\ UNCHANGED <<dbvars, nUpdate, mergedT, mergedI>>
           ELSE /\ nUpdate < MaxUpdate
                /\ nUpdate' = nUpdate + 1
                /\ tuples' = r.tuples
                /\ individual' = r.individual
                /\ tuples_temp' = r.tuples_temp
                /\ individual_temp' = r.individual_temp
                /\ mergedT' = IF InLog(r.log, "INSERT tuples")
                              THEN [mergedT EXCEPT ![ar.name] = @ + 1] ELSE mergedT
                /\ mergedI' = IF InLog(r.log, "INSERT individual")
                              THEN [mergedI EXCEPT ![ar.name] = @ + 1] ELSE mergedI
                /\ filenames' = IF r.err = Nil THEN set[1] ELSE filenames
                /\ call' = Called("ProcessBatch", ar.name,
                                  IF r.err = Nil THEN set[2] ELSE r.err,
                                  IF r.err = Nil /\ set[2] = Nil THEN "indexed" ELSE "failed",
                                  IF r.err = Nil /\ set[2] = Nil
                                  THEN Append(r.log, "INSERT filenames") ELSE r.log)

-----------------------------------------------------------------------------
(* Close: the body is return s.Close(), a call of the method itself.  Every *)
(* frame calls the next one before it can return; Go does not reuse the    *)
(* frame of a call in return position, so the stack grows until the        *)
(* runtime ends the process.                                               *)

Running == "running"
StackOverflow == "fatal error: stack overflow"

\* the caller calls s.Close(): the first frame
CloseCall ==
    /\ call.op # "Close"
    /\ call' = Called("Close", <<>>, Running, 1, <<>>)
    /\ UNCHANGED <<dbvars, nUpdate, nFault, mergedT, mergedI>>

\* the innermost frame evaluates s.Close(): one more frame
CloseRecurse ==
    /\ call.op = "Close" /\ call.err = Running
    /\ call.res < MaxStack
    /\ call' = [call EXCEPT !.res = @ + 1]
    /\ UNCHANGED <<dbvars, nUpdate, nFault, mergedT, mergedI>>

\* no room for one more frame: the runtime ends the process
CloseOverflow ==
    /\ call.op = "Close" /\ call.err = Running
    /\ call.res = MaxStack
    /\ call' = [call EXCEPT !.err = StackOverflow]
    /\ UNCHANGED <<dbvars, nUpdate, nFault, mergedT, mergedI>>

\* ingest and the ledger, with their failures
Next ==
    \/ \E ar \in Batches, fault \in UpdateFaults : Update(ar, fault)
    \/ BackgroundMerge
    \/ \E fault \in ClearFaults : Clear(fault)
    \/ \E f \in BatchNames, queryFails \in BOOLEAN : IsLogIndexed(f, queryFails)
    \/ \E f \in BatchNames, fault \in LedgerFaults : SetLogIndexed(f, fault)
    \/ \E ar \in Batches, fault \in ProcessFaults : ProcessBatch(ar, fault)

Spec == Init /\ [][Next]_vars

\* Update alone, with its failures, and the merges of the engine
NextUpdate ==
    \/ \E ar \in Batches, fault \in UpdateFaults : Update(ar, fault)
    \/ BackgroundMerge

SpecUpdate == Init /\ [][NextUpdate]_vars

\* the store is used and then closed; the caller of Close waits for it
NextClose ==
    \/ call.op # "Close" /\ \E ar \in Batches, fault \in UpdateFaults : Update(ar, fault)
    \/ call.op # "Close" /\ BackgroundMerge
    \/ CloseCall
    \/ CloseRecurse
    \/ CloseOverflow

SpecClose == Init /\ [][NextClose]_vars

\* the lookups, over the tables that ingest, the ledger and Clear leave
NextQuery ==
    \/ \E ar \in Batches, fault \in {"none", "loadIStatus"} : Update(ar, fault)
    \/ BackgroundMerge
    \/ \E fault \in ClearFaults : Clear(fault)
    \/ \E f \in BatchNames : SetLogIndexed(f, "none")
    \/ \E f \in BatchNames : IsLogIndexed(f, FALSE)
    \/ \E x \in LookupArgs, queryFails \in BOOLEAN : FindQueryTuples(x, queryFails)
    \/ \E x \in LookupArgs, queryFails \in BOOLEAN : FindTuples(x, queryFails)
    \/ \E x \in LookupArgs, queryFails \in BOOLEAN : LikeTuples(x, queryFails)
    \/ \E x \in LookupArgs, queryFails \in BOOLEAN : FindIndividual(x, queryFails)
    \/ \E x \in LookupArgs, queryFails \in BOOLEAN : LikeIndividual(x, queryFails)

SpecQuery == Init /\ [][NextQuery]_vars

-----------------------------------------------------------------------------
(* Properties *)

\* the merged state of the rows: per key, what minMerge(first),
\* maxMerge(last) and sumMerge(count) give
StateT(rows) ==
    {[key |-> KeyT(r), first |-> r.first, last |-> r.last, count |-> r.count] :
        r \in {GroupT(rows)[n] : n \in 1..Len(GroupT(rows))}}

StateI(rows) ==
    {[key |-> KeyI(r), first |-> r.first, last |-> r.last, count |-> r.count] :
        r \in {GroupI(rows)[n] : n \in 1..Len(GroupI(rows))}}

RECURSIVE Repeat(_, _)
Repeat(rows, n) == IF n = 0 THEN <<>> ELSE rows \o Repeat(rows, n - 1)

\* the staged rows of the batches merged m[f] times each, in the one order
\* f1 before f2
InNameOrderT(m) ==
    Repeat(TupleJSONReader(BatchOf("f1")), m["f1"])
    \o Repeat(TupleJSONReader(BatchOf("f2")), m["f2"])

InNameOrderI(m) ==
    Repeat(IndividualJSONReader(BatchOf("f1")), m["f1"])
    \o Repeat(IndividualJSONReader(BatchOf("f2")), m["f2"])

\* C1: the count, first and last of every tuple key and every individual key
\* depend on which batches Update merged and how often, not on the order of
\* the Updates: they are those of the same batches merged in the order f1, f2.
C1_MergeOrderIndependent ==
    /\ StateT(Rows(tuples)) = StateT(InNameOrderT(mergedT))
    /\ StateI(Rows(individual)) = StateI(InNameOrderI(mergedI))

\* f2 was merged before f1, and both Updates succeeded
C1_Witness ==
    /\ call.op = "Update" /\ call.arg = "f1" /\ call.err = Nil
    /\ mergedT = [f \in BatchNames |-> 1]
    /\ mergedI = [f \in BatchNames |-> 1]

StagingErrors == {ErrCreateTuples, ErrCreateIndividual, ErrLoadTuples, ErrLoadIndividual, Panic}

\* C2: an Update that ends with the failure of a staging step (a CREATE of a
\* staging table or a bulk load) has executed no INSERT into tuples or individual.
C2_NoInsertBeforeStagingDone ==
    (call.op = "Update" /\ call.err \in StagingErrors)
        => (~InLog(call.log, "INSERT tuples") /\ ~InLog(call.log, "INSERT individual"))

\* the tables after one Update of the batch on empty tables, with no failure
AfterOneUpdate(ar) ==
    UpdateRun(<<>>, <<>>, NoTable, NoTable, ar, "none")

\* C3: when Updates of one batch failed and the retry of the batch succeeded
\* (no other batch was merged), tuples and individual hold what one Update of
\* the batch without a failure leaves.
C3_RetryEqualsOneUpdate ==
    (/\ call.op = "Update" /\ call.err = Nil
     /\ mergedI[call.arg] = 1
     /\ \A f \in BatchNames \ {call.arg} : mergedT[f] = 0 /\ mergedI[f] = 0)
        => /\ StateT(Rows(tuples)) = StateT(Rows(AfterOneUpdate(BatchOf(call.arg)).tuples))
           /\ StateI(Rows(individual))
                = StateI(Rows(AfterOneUpdate(BatchOf(call.arg)).individual))

\* sumMerge(count) of every key of the table, each multiplied by n
CountsT(parts, n) == {<<e.key, n * e.count>> : e \in StateT(Rows(parts))}
CountsI(parts, n) == {<<e.key, n * e.count>> : e \in StateI(Rows(parts))}

\* the tables hold one merge of the batch f and nothing else
MergedOnce(f) ==
    /\ mergedT = [g \in BatchNames |-> IF g = f THEN 1 ELSE 0]
    /\ mergedI = [g \in BatchNames |-> IF g = f THEN 1 ELSE 0]

\* C4: a second successful Update of the batch the tables hold doubles the
\* count of every key; a driver that asks IsLogIndexed first leaves the count
\* of every key as it is when the batch has a record in the ledger.
C4_IdempotenceIsLedgerGated ==
    [][/\ (call'.op = "Update" /\ call'.err = Nil /\ MergedOnce(call'.arg))
            => /\ CountsT(tuples', 1) = CountsT(tuples, 2)
               /\ CountsI(individual', 1) = CountsI(individual, 2)
       /\ (call'.op = "ProcessBatch" /\ call'.arg \in filenames)
            => /\ CountsT(tuples', 1) = CountsT(tuples, 1)
               /\ CountsI(individual', 1) = CountsI(individual, 1)
      ]_vars

\* the driver skipped a batch that two Updates had merged twice
C4_Witness ==
    /\ call.op = "ProcessBatch" /\ call.res = "skipped"
    /\ mergedT[call.arg] = 2 /\ mergedI[call.arg] = 2

\* C5: Update leaves the ledger as it is, so that IsLogIndexed answers after
\* it as before it; a record of a batch appears only in a step that calls
\* SetLogIndexed for the batch.
C5_UpdateLeavesLedger ==
    [][/\ call'.op = "Update"
            => /\ filenames' = filenames
               /\ \A f \in BatchNames :
                    IsLogIndexedRun(filenames', f, FALSE) = IsLogIndexedRun(filenames, f, FALSE)
       /\ \A f \in filenames' \ filenames :
            /\ call'.op \in {"SetLogIndexed", "ProcessBatch"}
            /\ call'.arg = f
            /\ InLog(call'.log, "INSERT filenames")
      ]_vars

\* an Update failed after its INSERT into tuples, and the batch has no record
C5_Witness ==
    /\ call.op = "Update" /\ call.err # Nil
    /\ InLog(call.log, "INSERT tuples")
    /\ ~IsLogIndexedRun(filenames, call.arg, FALSE)[1]

\* the elements of a sequence
Range(seq) == {seq[n] : n \in 1..Len(seq)}

\* the keys, as the table holds them, of the tuple rows a lookup returned
\* (reverseQuery has turned the query round)
ReturnedT(tr) == {<<Reverse(r.query), r.type, r.answer>> : r \in Range(tr)}

\* the keys, as the table holds them, of the individual rows a lookup returned
\* (reverseValue has turned the value of the 'Q' rows round)
ReturnedI(tr) ==
    {<<r.which, IF r.which = "Q" THEN Reverse(r.value) ELSE r.value>> : r \in Range(tr)}

\* s is d, or ends with "." followed by d
EndsAtLabel(s, d) ==
    \/ s = d
    \/ /\ Len(s) > Len(d)
       /\ SubSeq(s, Len(s) - Len(d), Len(s)) = <<".">> \o d

\* s has the LIKE wildcard %
HasWildcard(s) == \E n \in 1..Len(s) : s[n] = "%"

\* C6: LikeTuples(d), d a domain (no wildcard in it), returns exactly the
\* tuples whose query or answer, in natural form, is d or ends with "."
\* followed by d.
C6_LikeTuplesAtLabel ==
    (call.op = "LikeTuples" /\ call.err = Nil /\ ~HasWildcard(call.arg))
        => ReturnedT(call.res)
             = {KeyT(r) : r \in {q \in Range(Rows(tuples)) :
                    EndsAtLabel(Reverse(q.query), call.arg) \/ EndsAtLabel(q.answer, call.arg)}}

C8_ReversedAgainstBothColumns ==
    (call.op = "FindTuples" /\ call.err = Nil)
        => ReturnedT(call.res)
             = {KeyT(r) : r \in {q \in Range(Rows(tuples)) :
                    q.query = Reverse(call.arg) \/ q.answer = Reverse(call.arg)}}

\* C8 as amended: FindTuples(x) returns exactly the tuples whose stored query
\* is Reverse(x) or whose stored answer is x itself.
C8_ReversedQueryLiteralAnswer ==
    (call.op = "FindTuples" /\ call.err = Nil)
        => ReturnedT(call.res)
             = {KeyT(r) : r \in {q \in Range(Rows(tuples)) :
                    q.query = Reverse(call.arg) \/ q.answer = call.arg}}

\* FindTuples(x) returned a tuple for its answer x, x not its own reverse
C8_Witness ==
    /\ call.op = "FindTuples" /\ call.err = Nil
    /\ call.arg # Reverse(call.arg)
    /\ \E k \in ReturnedT(call.res) : k[3] = call.arg /\ k[1] # Reverse(call.arg)

\* C9: IsLogIndexed(f) returns (true, nil) when the lookup succeeds and the
\* ledger has a row for f, (false, nil) when it succeeds and the ledger has
\* none, and (false, err) with err not nil when the lookup fails.
C9_IsLogIndexedResult ==
    call.op = "IsLogIndexed"
        => /\ (call.log # <<>> /\ call.arg \in filenames)
                => (call.res = TRUE /\ call.err = Nil)
           /\ (call.log # <<>> /\ call.arg \notin filenames)
                => (call.res = FALSE /\ call.err = Nil)
           /\ call.log = <<>> => (call.res = FALSE /\ call.err # Nil)

\* the lookup failed for a batch the ledger has
C9_Witness ==
    call.op = "IsLogIndexed" /\ call.err # Nil /\ call.arg \in filenames

LookupOps ==
    {"FindQueryTuples", "FindTuples", "LikeTuples", "FindIndividual", "LikeIndividual"}

Empty == tuples = <<>> /\ individual = <<>> /\ filenames = {}

\* C10: a Clear that returns nil leaves tuples, individual and filenames
\* empty; from then on, until an Update or a SetLogIndexed, the tables stay
\* empty, every lookup returns the empty list (with a nil error when its
\* query ran) and IsLogIndexed returns false.
C10_ClearEmptiesAll ==
    [][/\ (call'.op = "Clear" /\ call'.err = Nil)
            => /\ Empty'
               /\ \A x \in LookupArgs :
                    /\ FindQueryTuplesRun(tuples', x) = <<>>
                    /\ FindTuplesRun(tuples', x) = <<>>
                    /\ LikeTuplesRun(tuples', x) = <<>>
                    /\ FindIndividualRun(individual', x) = <<>>
                    /\ LikeIndividualRun(individual', x) = <<>>
               /\ \A f \in BatchNames : IsLogIndexedRun(filenames', f, FALSE) = <<FALSE, Nil>>
       /\ (Empty /\ call'.op \notin {"Update", "SetLogIndexed", "ProcessBatch"})
            => /\ Empty'
               /\ call'.op \in LookupOps
                    => (call'.res = <<>> /\ (call'.log # <<>> => call'.err = Nil))
               /\ call'.op = "IsLogIndexed" => call'.res = FALSE
      ]_vars

\* a lookup found nothing after a Clear emptied what an Update had merged
C10_Witness ==
    /\ call.op \in LookupOps /\ call.err = Nil /\ call.res = <<>>
    /\ Empty
    /\ nUpdate > 0 /\ nFault = 0

\* the six steps of Update, in the order of the code, and the annotation of
\* the error each returns
Steps ==
    <<"CREATE tuples_temp", "CREATE individual_temp", "LOAD tuples_temp",
      "INSERT tuples", "LOAD individual_temp", "INSERT individual">>

Annotation ==
    <<ErrCreateTuples, ErrCreateIndividual, ErrLoadTuples,
      ErrInsertTuples, ErrLoadIndividual, ErrInsertIndividual>>

\* C11: an Update never ends in a crash; when the rows of a staging table did
\* not arrive (the POST of SendJSON failed, at the transport level or with a
\* status >= 400), Update returns the wrapped error of that load.
C11_TransportFailureIsError ==
    call.op = "Update"
        => /\ call.err # Panic
           /\ (InLog(call.log, "CREATE individual_temp") /\ ~InLog(call.log, "LOAD tuples_temp"))
                => call.err = ErrLoadTuples
           /\ (InLog(call.log, "INSERT tuples") /\ ~InLog(call.log, "LOAD individual_temp"))
                => call.err = ErrLoadIndividual

\* C12: a step of Update (failed or not) or of the engine's merge leaves no
\* tuple key and no individual key with a smaller merged count than before.
C12_CountsNeverDecrease ==
    [][/\ \A e \in StateT(Rows(tuples)) :
            \E d \in StateT(Rows(tuples')) : d.key = e.key /\ d.count >= e.count
       /\ \A e \in StateI(Rows(individual)) :
            \E d \in StateI(Rows(individual')) : d.key = e.key /\ d.count >= e.count
      ]_vars

\* after a failed Update, a second Update raised the count of a key to 3
C12_Witness ==
    /\ call.op = "Update" /\ nFault = 1 /\ nUpdate = 2
    /\ \E e \in StateT(Rows(tuples)) : e.count = 3

\* C13: every row of every part, and every merged aggregate, of tuples and of
\* individual has first <= last (every row of every batch has).
C13_FirstNotAfterLast ==
    /\ \A r \in Range(Rows(tuples)) \cup Range(Rows(individual)) : r.first <= r.last
    /\ \A e \in StateT(Rows(tuples)) \cup StateI(Rows(individual)) : e.first <= e.last

\* a failed Update left tuples with a key seen over more than one instant
C13_Witness ==
    /\ call.op = "Update" /\ call.err # Nil
    /\ InLog(call.log, "INSERT tuples")
    /\ \E e \in StateT(Rows(tuples)) : e.first < e.last

\* C14: the six annotations are distinct; an Update that returns the
\* annotation of step k has run every step before k and no step after k (nor
\* k itself, unless k is a load whose rows arrived before it failed); an
\* Update that returns nil has run all six steps.
C14_ErrorNamesFirstFailedStep ==
    /\ Cardinality({Annotation[k] : k \in 1..6}) = 6
    /\ call.op = "Update"
        => /\ call.err \in {Annotation[k] : k \in 1..6} \cup {Nil, Panic}
           /\ \A k \in 1..6 :
                call.err = Annotation[k]
                    => /\ \A j \in 1..(k - 1) : InLog(call.log, Steps[j])
                       /\ \A j \in (k + 1)..6 : ~InLog(call.log, Steps[j])
                       /\ k \notin {3, 5} => ~InLog(call.log, Steps[k])
           /\ call.err = Nil => \A k \in 1..6 : InLog(call.log, Steps[k])
           /\ (\A k \in 1..6 : InLog(call.log, Steps[k])) => call.err = Nil

\* an Update returned the annotation of the fifth step, the load of individual_temp
C14_Witness ==
    /\ call.op = "Update" /\ call.err = ErrLoadIndividual
    /\ InLog(call.log, "INSERT tuples")

\* r1 < r2 by (query, answer), the strings as they are in the rows
QueryAnswerLess(r1, r2) ==
    \/ StrLess(r1.query, r2.query)
    \/ r1.query = r2.query /\ StrLess(r1.answer, r2.answer)

\* C15: the list FindTuples or LikeTuples returns is ascending by the (query,
\* answer) of its rows, and the list FindIndividual or LikeIndividual returns
\* is ascending by the value of its rows.
C15_SortedByReturned ==
    /\ (call.op \in {"FindTuples", "LikeTuples"} /\ call.err = Nil)
        => \A m, n \in 1..Len(call.res) :
              m < n => ~QueryAnswerLess(call.res[n], call.res[m])
    /\ (call.op \in {"FindIndividual", "LikeIndividual"} /\ call.err = Nil)
        => \A m, n \in 1..Len(call.res) :
              m < n => ~StrLess(call.res[n].value, call.res[m].value)

\* C16 as claimed: from the state the tables are in, some failure of Update
\* leaves the batch merged into tuples and not into individual, and some
\* failure leaves it merged into individual and not into tuples.
C16_EitherDirection ==
    \A ar \in Batches :
        /\ \E fault \in UpdateFaults :
              LET r == UpdateRun(tuples, individual, tuples_temp, individual_temp, ar, fault)
              IN  r.err # Nil /\ r.tuples # tuples /\ r.individual = individual
        /\ \E fault \in UpdateFaults :
              LET r == UpdateRun(tuples, individual, tuples_temp, individual_temp, ar, fault)
              IN  r.err # Nil /\ r.individual # individual /\ r.tuples = tuples

\* C16 as amended: an Update that fails leaves individual as it was; when its
\* INSERT into tuples ran, tuples has the part of the batch on top of what it
\* had (the merge is not rolled back), and when it did not run, tuples is as
\* it was.  So a failed Update leaves 'tuples merged, individuals not' and
\* never 'individuals merged, tuples not'.
C16_PartialApplyIsTuplesOnly ==
    [][(call'.op = "Update" /\ call'.err # Nil)
            => /\ individual' = individual
               /\ ~InLog(call'.log, "INSERT individual")
               /\ InLog(call'.log, "INSERT tuples")
                    => tuples' = Append(tuples,
                                        SortT(GroupT(TupleJSONReader(BatchOf(call'.arg)))))
               /\ ~InLog(call'.log, "INSERT tuples") => tuples' = tuples
      ]_vars

\* a failed Update left its batch in tuples and not in individual
C16_Witness ==
    /\ call.op = "Update" /\ call.err \in {ErrLoadIndividual, ErrInsertIndividual}
    /\ mergedT[call.arg] = 1 /\ mergedI[call.arg] = 0
    /\ tuples # <<>> /\ individual = <<>>

\* the merged state of the rows with the ttl: per key, what anyLastMerge(ttl),
\* minMerge(first), maxMerge(last) and sumMerge(count) give
FullStateT(rows) ==
    {[key |-> KeyT(r), ttl |-> r.ttl, first |-> r.first, last |-> r.last, count |-> r.count] :
        r \in {GroupT(rows)[n] : n \in 1..Len(GroupT(rows))}}

\* anyLastMerge(ttl) of every key
TtlT(rows) == {<<e.key, e.ttl>> : e \in FullStateT(rows)}

\* C17 as claimed: the ttl, first, last and count of every tuple key are those
\* of the same batches merged in the order f1, f2, whatever the order of the
\* Updates was.
C17_FullStateOrderIndependent ==
    FullStateT(Rows(tuples)) = FullStateT(InNameOrderT(mergedT))

\* C17 as amended: first, last and count of every tuple key are those of the
\* same batches merged in the order f1, f2; the ttl of a key is the ttl of the
\* batch whose INSERT into tuples ran last among those that have the key: an
\* INSERT sets the ttl of the keys of its batch and leaves the ttl of the
\* other keys, and a merge of parts leaves every ttl.
C17_TtlLastWriteWins ==
    [][/\ StateT(Rows(tuples')) = StateT(InNameOrderT(mergedT'))
       /\ (call'.op = "Update" /\ InLog(call'.log, "INSERT tuples"))
            => \A e \in FullStateT(Rows(tuples')) :
                  IF \E r \in Range(TupleJSONReader(BatchOf(call'.arg))) : KeyT(r) = e.key
                  THEN \E r \in Range(TupleJSONReader(BatchOf(call'.arg))) :
                          KeyT(r) = e.key /\ r.ttl = e.ttl
                  ELSE <<e.key, e.ttl>> \in TtlT(Rows(tuples))
       /\ call'.op = "BackgroundMerge" => TtlT(Rows(tuples')) = TtlT(Rows(tuples))
      ]_vars

\* f1 was merged after f2, and the key both have has the ttl of f1
C17_Witness ==
    /\ call.op = "Update" /\ call.arg = "f1"
    /\ mergedT = [f \in BatchNames |-> 1]
    /\ <<KeyT(TupleJSONReader(BatchOf("f1"))[1]), 1>> \in TtlT(Rows(tuples))
    /\ <<KeyT(TupleJSONReader(BatchOf("f1"))[1]), 2>> \in TtlT(InNameOrderT(mergedT))

\* C18: after Updates that all succeeded, FindQueryTuples(q) returns one row
\* for every key whose query is q and no other row; the row has the query q,
\* the sum of the counts, the least first and the greatest last of the key.
C18_OneRowPerKey ==
    (call.op = "FindQueryTuples" /\ call.err = Nil /\ nFault = 0)
        => /\ {[key |-> <<Reverse(r.query), r.type, r.answer>>,
                first |-> r.first, last |-> r.last, count |-> r.count] :
                    r \in Range(call.res)}
                = {e \in StateT(Rows(tuples)) : e.key[1] = Reverse(call.arg)}
           /\ Len(call.res)
                = Cardinality({e \in StateT(Rows(tuples)) : e.key[1] = Reverse(call.arg)})
           /\ \A n \in 1..Len(call.res) : call.res[n].query = call.arg

\* C19: when an Update has run its INSERT ... SELECT from tuples_temp,
\* tuples_temp holds the rows of the batch of this Update and no other row;
\* the same for individual_temp and the INSERT into individual.
C19_StagingIsolation ==
    call.op \in {"Update", "ProcessBatch"}
        => /\ InLog(call.log, "INSERT tuples")
                => tuples_temp.rows = TupleJSONReader(BatchOf(call.arg))
           /\ InLog(call.log, "INSERT individual")
                => individual_temp.rows = IndividualJSONReader(BatchOf(call.arg))

\* an Update succeeded on the staging tables that a failed Update of the
\* other batch had left with its rows
C19_Witness ==
    /\ call.op = "Update" /\ call.err = Nil /\ nFault = 1
    /\ InLog(call.log, "DROP tuples_temp") /\ InLog(call.log, "DROP individual_temp")
    /\ \E f \in BatchNames \ {call.arg} : mergedT[f] = 1 /\ mergedI[f] = 0

\* C20: a call of Close that can take no further step has returned to its caller.
C20_CloseReturns ==
    (call.op = "Close" /\ ~ENABLED (CloseRecurse \/ CloseOverflow)) => call.err = Nil

====
